---- MODULE Spec2Model ----
(***************************************************************************)
(* Excel_compare_v2.py: the "Compare Excel Files" request (outer merge of  *)
(* two uploaded sheets, Differences workbook, highlight_col) and the       *)
(* "Extract and Merge Columns" request (extract_and_merge_columns).        *)
(*                                                                         *)
(* A DataFrame is [cols |-> <<names>>, rows |-> <<rows>>], a row a tuple   *)
(* of cells in column order.  A cell is [kind, val]: text ("str", val the  *)
(* tuple of its characters), a number ("num", val its digits) or the       *)
(* missing value NaN/None ("null").  An atom such as "Source Only" stands  *)
(* for a run of text that holds no leading or trailing whitespace.         *)
(***************************************************************************)
EXTENDS Integers, Sequences, FiniteSets, TLC

VARIABLES
    source,        \* per request: uploaded_source_file, <<>> when nothing is uploaded
    target,        \* per request: uploaded_target_file
    pc,            \* per request: where the handler of "Compare Excel Files" stands
    diff,          \* per request: the local DataFrame diff
    wb,            \* per request: the workbook highlight_col has loaded
    disk,          \* the file 'diff_output.xlsx' of the working directory, <<>> when absent
    shown,         \* per request: what st.write / st.error displayed
    download,      \* per request: the bytes handed to st.download_button
    old_file,      \* Excel A of "Extract and Merge Columns"
    new_file,      \* Excel B
    mpc,           \* where the handler of "Extract and Merge Columns" stands
    merged_file,   \* the temporary file of extract_and_merge_columns, <<>> when absent
    merged_offer   \* the bytes handed to "Download Merged File"

vars == <<source, target, pc, diff, wb, disk, shown, download,
          old_file, new_file, mpc, merged_file, merged_offer>>

compareVars == <<source, target, pc, diff, wb, disk, shown, download>>
mergeVars == <<old_file, new_file, mpc, merged_file, merged_offer>>

(***************************************************************************)
(* Bounds of the model.                                                    *)
(***************************************************************************)
MaxRows == 2        \* rows of one uploaded sheet of a compare request
MaxMergeRows == 4   \* rows of Excel A and Excel B together

(***************************************************************************)
(* Cells and helpers.                                                      *)
(***************************************************************************)
Text(chars) == [kind |-> "str", val |-> chars]
Number(digits) == [kind |-> "num", val |-> digits]
NaN == [kind |-> "null", val |-> <<>>]

Range(s) == {s[i] : i \in 1..Len(s)}
Indices(s) == [i \in 1..Len(s) |-> i]
ColIndex(cols, c) == CHOOSE i \in 1..Len(cols) : cols[i] = c

RECURSIVE Concat(_)
Concat(ss) == IF ss = <<>> THEN <<>> ELSE Head(ss) \o Concat(Tail(ss))

EmptyFrame == [cols |-> <<>>, rows |-> <<>>]

(***************************************************************************)
(* Whitespace normalisation, lines 148-150.                                *)
(***************************************************************************)
Whitespace == {" ", "\t", "\n"}

RECURSIVE LStrip(_)
LStrip(s) == IF s # <<>> /\ Head(s) \in Whitespace THEN LStrip(Tail(s)) ELSE s

RECURSIVE RStrip(_)
RStrip(s) ==
    IF s # <<>> /\ s[Len(s)] \in Whitespace THEN RStrip(SubSeq(s, 1, Len(s) - 1)) ELSE s

Strip(s) == RStrip(LStrip(s))

\* a plausible slip: lstrip() in place of strip()
StripCellLeftOnly(x) == IF x.kind = "str" THEN Text(LStrip(x.val)) ELSE x

\* lambda x: str(x).strip() if isinstance(x, str) else x
StripCell(x) == IF x.kind = "str" THEN Text(Strip(x.val)) ELSE x

\* DataFrame.applymap with the lambda above
ApplyMapStrip(df) ==
    [df EXCEPT !.rows = [i \in 1..Len(df.rows) |->
                            [j \in 1..Len(df.rows[i]) |-> StripCell(df.rows[i][j])]]]

(***************************************************************************)
(* source_file.merge(target_file, indicator=True, how='outer'), line 153.  *)
(* With no `on`, the join key is the columns the two frames have in        *)
(* common; NaN keys match NaN keys.  A key held m times on the left and n  *)
(* times on the right gives m*n rows 'both'; a key of one side only gives  *)
(* one row per occurrence, the other side's columns filled with NaN.  The  *)
(* rows are laid out left rows first, then the unmatched right rows: the   *)
(* order pandas gives an outer join is not used by anything below.         *)
(***************************************************************************)
\* a plausible slip: the join keyed on the first shared column alone
CommonColumnsFirstOnly(left, right) ==
    SubSeq(SelectSeq(left.cols, LAMBDA c : c \in Range(right.cols)), 1, 1)

CommonColumns(left, right) == SelectSeq(left.cols, LAMBDA c : c \in Range(right.cols))

RightOnlyColumns(left, right) == SelectSeq(right.cols, LAMBDA c : c \notin Range(left.cols))

KeyOf(df, row, on) == [k \in 1..Len(on) |-> row[ColIndex(df.cols, on[k])]]

\* the dtype pd.read_excel gives a column that has rows: numeric when it
\* holds numbers and missing cells only, object as soon as it holds text
IsNumericColumn(df, c) ==
    /\ df.rows # <<>>
    /\ \A i \in 1..Len(df.rows) : df.rows[i][ColIndex(df.cols, c)].kind # "str"

HoldsNumber(df, c) ==
    \E i \in 1..Len(df.rows) : df.rows[i][ColIndex(df.cols, c)].kind = "num"

\* merge raises ValueError ("You are trying to merge on int64 and object
\* columns") when both frames have rows and a key column is numeric on one
\* side and, on the other, an object column of text without any number
RefusesKeys(left, right) ==
    /\ left.rows # <<>>
    /\ right.rows # <<>>
    /\ \E c \in Range(CommonColumns(left, right)) :
          \/ IsNumericColumn(left, c) /\ ~IsNumericColumn(right, c) /\ ~HoldsNumber(right, c)
          \/ IsNumericColumn(right, c) /\ ~IsNumericColumn(left, c) /\ ~HoldsNumber(left, c)

\* a plausible slip: SQL's rule, under which a missing value matches nothing
KeysMatchNoNaN(a, b) == a = b /\ NaN \notin Range(a)

\* pandas matches the key tuples by value, a NaN with a NaN
KeysMatch(a, b) == a = b

Indicator(tag) == Text(<<tag>>)

\* the right rows, in order, whose key matches that of the left row i
Matches(left, right, on, i) ==
    SelectSeq(Indices(right.rows),
              LAMBDA j : KeysMatch(KeyOf(left, left.rows[i], on), KeyOf(right, right.rows[j], on)))

\* a plausible slip: equal unmatched right rows collapse to their first
UnmatchedFirstOnly(left, right, on) ==
    SelectSeq(Indices(right.rows),
              LAMBDA j : /\ \A i \in 1..Len(left.rows) :
                              ~KeysMatch(KeyOf(left, left.rows[i], on),
                                         KeyOf(right, right.rows[j], on))
                         /\ \A h \in 1..(j - 1) : right.rows[h] # right.rows[j])

\* the right rows, in order, whose key no left row holds
Unmatched(left, right, on) ==
    SelectSeq(Indices(right.rows),
              LAMBDA j : \A i \in 1..Len(left.rows) :
                            ~KeysMatch(KeyOf(left, left.rows[i], on),
                                       KeyOf(right, right.rows[j], on)))

MergeOuter(left, right) ==
    LET on == CommonColumns(left, right)
        extra == RightOnlyColumns(left, right)
        rextra(j) == [k \in 1..Len(extra) |-> right.rows[j][ColIndex(right.cols, extra[k])]]
        nanextra == [k \in 1..Len(extra) |-> NaN]
        leftRows(i) ==
            LET m == Matches(left, right, on, i)
            IN  IF m = <<>>
                THEN << left.rows[i] \o nanextra \o <<Indicator("left_only")>> >>
                ELSE [k \in 1..Len(m) |->
                        left.rows[i] \o rextra(m[k]) \o <<Indicator("both")>>]
        unmatched == Unmatched(left, right, on)
        rightRow(j) ==
            [k \in 1..Len(left.cols) |->
                IF left.cols[k] \in Range(right.cols)
                THEN right.rows[j][ColIndex(right.cols, left.cols[k])]
                ELSE NaN]
            \o rextra(j) \o <<Indicator("right_only")>>
    IN  [cols |-> left.cols \o extra \o <<"_merge">>,
         rows |-> Concat([i \in 1..Len(left.rows) |-> leftRows(i)])
                  \o [k \in 1..Len(unmatched) |-> rightRow(unmatched[k])]]

\* diff['_merge'].replace({'left_only': 'Source Only', 'right_only': 'Target Only'}), line 155
ReplaceIndicator(df) ==
    LET m == ColIndex(df.cols, "_merge")
        label(x) == IF x = Indicator("left_only") THEN Indicator("Source Only")
                    ELSE IF x = Indicator("right_only") THEN Indicator("Target Only")
                    ELSE x
    IN  [df EXCEPT !.rows = [i \in 1..Len(df.rows) |->
                                [df.rows[i] EXCEPT ![m] = label(df.rows[i][m])]]]

\* diff.rename(columns={'_merge': 'Merge_Output'}), line 157
RenameIndicator(df) ==
    [df EXCEPT !.cols = [j \in 1..Len(df.cols) |->
                            IF df.cols[j] = "_merge" THEN "Merge_Output" ELSE df.cols[j]]]

\* diff[diff['Merge_Output'] != 'both'], line 159
DropBoth(df) ==
    LET m == ColIndex(df.cols, "Merge_Output")
    IN  [df EXCEPT !.rows = SelectSeq(df.rows, LAMBDA r : r[m] # Indicator("both"))]

\* lines 153-159
Reconcile(src, tgt) == DropBoth(RenameIndicator(ReplaceIndicator(MergeOuter(src, tgt))))

(***************************************************************************)
(* The workbook of 'diff_output.xlsx': sheets Source, Target, Differences. *)
(* A sheet keeps, beside the frame, the fill of every data cell.           *)
(***************************************************************************)
Sheet(df) ==
    [cols |-> df.cols,
     rows |-> df.rows,
     fill |-> [i \in 1..Len(df.rows) |-> [j \in 1..Len(df.cols) |-> "none"]]]

\* lines 166-169
DifferencesWorkbook(src, tgt, d) ==
    [Source |-> Sheet(src), Target |-> Sheet(tgt), Differences |-> Sheet(d)]

\* lines 180-184: the header of the source frame, its first cell overwritten
NoDifferenceWorkbook(src, tgt) ==
    [Source |-> Sheet(src),
     Target |-> Sheet(tgt),
     Differences |->
        Sheet([cols |-> [j \in 1..Len(src.cols) |->
                            IF j = 1
                            THEN "No difference found between source and target files."
                            ELSE src.cols[j]],
               rows |-> <<>>])]

(***************************************************************************)
(* highlight_col, lines 39-85.                                             *)
(***************************************************************************)
\* lines 55-64: the row's fill from the value of its last cell
FillRows(ws) ==
    [ws EXCEPT !.fill = [i \in 1..Len(ws.rows) |->
        LET row == ws.rows[i]
            merge_output == row[Len(row)]
        IN  [j \in 1..Len(row) |->
                IF merge_output = Indicator("Source Only") THEN "yellow"
                ELSE IF merge_output = Indicator("Target Only") THEN "pink"
                ELSE ws.fill[i][j]]]]

\* line 67
NumCols(ws) == Len(ws.cols) - 1

\* lines 70-82: iter_rows(max_col=num_cols) yields the row without its last
\* cell, so row[-1] is the last of the first num_cols cells
CompareHalves(ws) ==
    LET num_cols == NumCols(ws)
        half == num_cols \div 2
    IN  [ws EXCEPT !.fill = [i \in 1..Len(ws.rows) |->
            LET row == SubSeq(ws.rows[i], 1, num_cols)
                merge_output == row[Len(row)]
                marked(j) ==
                    /\ num_cols > 0
                    /\ merge_output \in {Indicator("Source Only"), Indicator("Target Only")}
                    /\ \E k \in 0..(half - 1) :
                        /\ j \in {k + 1, k + 1 + half}
                        /\ row[k + 1] # row[k + 1 + half]
            IN  [j \in 1..Len(ws.rows[i]) |->
                    IF marked(j) THEN "red" ELSE ws.fill[i][j]]]]

\* load_workbook, both passes; wb.save is the caller's next step
HighlightCol(book) == [book EXCEPT !.Differences = CompareHalves(FillRows(book.Differences))]

(***************************************************************************)
(* The handler of "Compare Excel Files", lines 141-196, one per request.   *)
(* Requests of several browser sessions run in threads of one process and  *)
(* share the working directory; a handler is cut where it reads or writes  *)
(* the file 'diff_output.xlsx'.                                            *)
(***************************************************************************)
Message(text, count) == [text |-> text, count |-> count]

\* lines 142-169 and 178-184, or 191-196
Compare(s) ==
    /\ pc[s] = "clicked"
    /\ IF source[s] = <<>> \/ target[s] = <<>>
       THEN /\ shown' = [shown EXCEPT ![s] = Message("Please upload both Excel files.", 0)]
            /\ pc' = [pc EXCEPT ![s] = "done"]
            /\ UNCHANGED <<diff, disk>>
       ELSE LET source_file == ApplyMapStrip(source[s][1])
                target_file == ApplyMapStrip(target[s][1])
            IN  IF \/ CommonColumns(source_file, target_file) = <<>>
                   \/ RefusesKeys(source_file, target_file)
                THEN \* MergeError or ValueError of line 153, caught at line 191
                     /\ shown' = [shown EXCEPT ![s] = Message("An error occurred", 0)]
                     /\ pc' = [pc EXCEPT ![s] = "done"]
                     /\ UNCHANGED <<diff, disk>>
                ELSE LET d == Reconcile(source_file, target_file)
                     IN  /\ diff' = [diff EXCEPT ![s] = d]
                         /\ IF d.rows # <<>>
                            THEN /\ disk' = <<DifferencesWorkbook(source_file, target_file, d)>>
                                 /\ pc' = [pc EXCEPT ![s] = "highlight"]
                            ELSE /\ disk' = <<NoDifferenceWorkbook(source_file, target_file)>>
                                 /\ pc' = [pc EXCEPT ![s] = "report"]
                         /\ UNCHANGED shown
    /\ UNCHANGED <<source, target, wb, download>>
    /\ UNCHANGED mergeVars

\* line 172, highlight_col lines 45-82
HighlightLoad(s) ==
    /\ pc[s] = "highlight"
    /\ disk # <<>>
    /\ wb' = [wb EXCEPT ![s] = <<HighlightCol(disk[1])>>]
    /\ pc' = [pc EXCEPT ![s] = "save"]
    /\ UNCHANGED <<source, target, diff, disk, shown, download>>
    /\ UNCHANGED mergeVars

\* highlight_col line 85
HighlightSave(s) ==
    /\ pc[s] = "save"
    /\ disk' = wb[s]
    /\ pc' = [pc EXCEPT ![s] = "report"]
    /\ UNCHANGED <<source, target, diff, wb, shown, download>>
    /\ UNCHANGED mergeVars

\* lines 175-177 or 187-189
Report(s) ==
    /\ pc[s] = "report"
    /\ disk # <<>>
    /\ shown' = [shown EXCEPT ![s] =
                    IF diff[s].rows # <<>>
                    THEN Message("Found differences.", Len(diff[s].rows))
                    ELSE Message("No differences found.", 0)]
    /\ download' = [download EXCEPT ![s] = disk]
    /\ pc' = [pc EXCEPT ![s] = "done"]
    /\ UNCHANGED <<source, target, diff, wb, disk>>
    /\ UNCHANGED mergeVars

Next ==
    \/ \E s \in DOMAIN pc : Compare(s)
    \/ \E s \in DOMAIN pc : HighlightLoad(s)
    \/ \E s \in DOMAIN pc : HighlightSave(s)
    \/ \E s \in DOMAIN pc : Report(s)

(***************************************************************************)
(* extract_and_merge_columns, lines 8-37.                                  *)
(***************************************************************************)
\* astype(str): text as it is, a number by its digits, a missing value 'nan'
Str(x) == IF x.kind = "null" THEN <<"n", "a", "n">> ELSE x.val

\* sep.join(parts)
RECURSIVE Join(_, _)
Join(sep, parts) ==
    IF parts = <<>> THEN <<>>
    ELSE IF Len(parts) = 1 THEN parts[1]
    ELSE parts[1] \o <<sep>> \o Join(sep, Tail(parts))

\* df[keys].astype(str).agg('_'.join, axis=1), for one row
UniqueKey(df, keys, row) ==
    Text(Join("_", [k \in 1..Len(keys) |-> Str(row[ColIndex(df.cols, keys[k])])]))

\* lines 14 and 16: the frame gains the column 'UniqueKey'
WithUniqueKey(df, keys) ==
    [cols |-> df.cols \o <<"UniqueKey">>,
     rows |-> [i \in 1..Len(df.rows) |-> df.rows[i] \o <<UniqueKey(df, keys, df.rows[i])>>]]

\* lines 19 and 21: df[['UniqueKey'] + cols]
Extract(df, cols) ==
    LET picked == <<"UniqueKey">> \o cols
    IN  [cols |-> picked,
         rows |-> [i \in 1..Len(df.rows) |->
                    [j \in 1..Len(picked) |-> df.rows[i][ColIndex(df.cols, picked[j])]]]]

\* the columns of a merge on 'UniqueKey': a name both sides hold beside the
\* key gets the suffix _x on the left and _y on the right
MergedColumns(left, right) ==
    [j \in 1..Len(left.cols) |->
        IF left.cols[j] # "UniqueKey" /\ left.cols[j] \in Range(right.cols)
        THEN left.cols[j] \o "_x" ELSE left.cols[j]]
    \o [j \in 1..(Len(right.cols) - 1) |->
        IF right.cols[j + 1] \in Range(left.cols)
        THEN right.cols[j + 1] \o "_y" ELSE right.cols[j + 1]]

\* a plausible slip: how='left', every left row kept
MergeLeftOnUniqueKey(left, right) ==
    [cols |-> MergedColumns(left, right),
     rows |-> Concat([i \in 1..Len(left.rows) |->
                LET m == SelectSeq(Indices(right.rows),
                                   LAMBDA j : right.rows[j][1] = left.rows[i][1])
                IN  IF m = <<>>
                    THEN << left.rows[i] \o [k \in 1..(Len(right.cols) - 1) |-> NaN] >>
                    ELSE [k \in 1..Len(m) |-> left.rows[i] \o Tail(right.rows[m[k]])]])]

\* line 24: pd.merge(old_data, new_data, on='UniqueKey', how='inner'); the
\* key is the first column of both frames; the pairs come in the order of
\* the left rows and, for one left row, in the order of the right rows
MergeInnerOnUniqueKey(left, right) ==
    [cols |-> MergedColumns(left, right),
     rows |-> Concat([i \in 1..Len(left.rows) |->
                LET m == SelectSeq(Indices(right.rows),
                                   LAMBDA j : right.rows[j][1] = left.rows[i][1])
                IN  [k \in 1..Len(m) |-> left.rows[i] \o Tail(right.rows[m[k]])]])]

\* a plausible slip: keep='last'
DropDuplicatesKeepLast(df) ==
    [df EXCEPT !.rows =
        LET kept == SelectSeq(Indices(df.rows),
                              LAMBDA i : \A h \in (i + 1)..Len(df.rows) : df.rows[h][1] # df.rows[i][1])
        IN  [k \in 1..Len(kept) |-> df.rows[kept[k]]]]

\* line 27: drop_duplicates(subset='UniqueKey') keeps the first row of a key
DropDuplicates(df) ==
    [df EXCEPT !.rows =
        LET kept == SelectSeq(Indices(df.rows),
                              LAMBDA i : \A h \in 1..(i - 1) : df.rows[h][1] # df.rows[i][1])
        IN  [k \in 1..Len(kept) |-> df.rows[kept[k]]]]

\* lines 99-102 and 113-116: the key and column lists typed by the user
old_keys_list == <<"k1", "k2">>
new_keys_list == <<"k1", "k2">>
old_cols == <<"k1", "k2", "v">>
new_cols == <<"v">>

\* lines 105-119 and 129-134, extract_and_merge_columns lines 14-35
ExtractAndMerge ==
    /\ mpc = "clicked"
    /\ IF old_file = <<>> \/ new_file = <<>>
       THEN \* "Please upload both Excel files."
            /\ mpc' = "error"
            /\ UNCHANGED <<old_file, new_file, merged_file>>
       ELSE IF ~(Range(old_keys_list) \cup Range(old_cols) \subseteq Range(old_file[1].cols))
               \/ ~(Range(new_keys_list) \cup Range(new_cols) \subseteq Range(new_file[1].cols))
       THEN \* KeyError, caught at line 129
            /\ mpc' = "error"
            /\ UNCHANGED <<old_file, new_file, merged_file>>
       ELSE LET old == WithUniqueKey(old_file[1], old_keys_list)
                new == WithUniqueKey(new_file[1], new_keys_list)
                merged_data == DropDuplicates(
                                 MergeInnerOnUniqueKey(Extract(old, old_cols),
                                                       Extract(new, new_cols)))
            IN  /\ old_file' = <<old>>
                /\ new_file' = <<new>>
                /\ merged_file' = <<merged_data>>
                /\ mpc' = "merged"
    /\ UNCHANGED merged_offer
    /\ UNCHANGED compareVars

\* lines 122-127
DownloadMerged ==
    /\ mpc = "merged"
    /\ merged_offer' = merged_file
    /\ merged_file' = <<>>
    /\ mpc' = "done"
    /\ UNCHANGED <<old_file, new_file>>
    /\ UNCHANGED compareVars

NextMerge == ExtractAndMerge \/ DownloadMerged

(***************************************************************************)
(* Uploaded sheets.  A column draws its cells from a small set.            *)
(***************************************************************************)
CellsOf(col) ==
    CASE col = "x" -> {Text(<<"a">>), Text(<<" ", "a", " ">>), NaN}
      [] col \in {"y", "z"} -> {Number(<<"1">>), Text(<<"Source Only">>)}
      [] col = "k1" -> {Text(<<"a">>), Text(<<"a", "_">>)}
      [] col = "k2" -> {Text(<<"a">>), Text(<<"_", "a">>)}
      [] col = "v" -> {Text(<<"p">>), Text(<<"q">>)}

RowsOf(cols) == {r \in [1..Len(cols) -> UNION {CellsOf(cols[j]) : j \in 1..Len(cols)}] :
                    \A j \in 1..Len(cols) : r[j] \in CellsOf(cols[j])}

FramesOf(cols, n) ==
    {[cols |-> cols, rows |-> rs] : rs \in UNION {[1..k -> RowsOf(cols)] : k \in 0..n}}

InitMergeIdle ==
    /\ old_file = <<>>
    /\ new_file = <<>>
    /\ mpc = "idle"
    /\ merged_file = <<>>
    /\ merged_offer = <<>>

InitCompare(sessions, sources, targets) ==
    /\ source \in [sessions -> sources]
    /\ target \in [sessions -> targets]
    /\ pc = [s \in sessions |-> "clicked"]
    /\ diff = [s \in sessions |-> EmptyFrame]
    /\ wb = [s \in sessions |-> <<>>]
    /\ disk = <<>>
    /\ shown = [s \in sessions |-> Message("", 0)]
    /\ download = [s \in sessions |-> <<>>]
    /\ InitMergeIdle

\* one request, both sheets with the columns x, y
Init ==
    LET uploads == {<<>>} \cup {<<f>> : f \in FramesOf(<<"x", "y">>, MaxRows)}
    IN  InitCompare({1}, uploads, uploads)

Spec == Init /\ [][Next]_vars

InitCompareIdle ==
    /\ source = <<>>
    /\ target = <<>>
    /\ pc = <<>>
    /\ diff = <<>>
    /\ wb = <<>>
    /\ disk = <<>>
    /\ shown = <<>>
    /\ download = <<>>

\* one "Extract and Merge Columns" request
InitMerge ==
    /\ \E n, m \in 0..MaxMergeRows :
          /\ n + m <= MaxMergeRows
          /\ old_file \in {<<f>> : f \in FramesOf(<<"k1", "k2", "v">>, n)}
                          \cup {<<f>> : f \in FramesOf(<<"k1", "v">>, 0)} \cup {<<>>}
          /\ new_file \in {<<f>> : f \in FramesOf(<<"k1", "k2", "v">>, m)}
    /\ mpc = "clicked"
    /\ merged_file = <<>>
    /\ merged_offer = <<>>
    /\ InitCompareIdle

SpecMerge == InitMerge /\ [][NextMerge]_vars

\* one request, the target sheet with columns that differ from the source's
\* in order, in a name, in count, or altogether
TargetSchemas == {<<"x", "y">>, <<"y", "x">>, <<"x", "z">>, <<"x">>, <<"z">>}

InitSchema ==
    InitCompare({1},
                {<<f>> : f \in FramesOf(<<"x", "y">>, 1)},
                {<<f>> : f \in UNION {FramesOf(cols, 1) : cols \in TargetSchemas}})

SpecSchema == InitSchema /\ [][Next]_vars

\* two requests at once
Sessions == 2

InitConcurrent ==
    LET uploads == {<<f>> : f \in FramesOf(<<"x">>, 1)}
    IN  InitCompare(1..Sessions, uploads, uploads)

SpecConcurrent == InitConcurrent /\ [][Next]_vars

(***************************************************************************)
(* Properties of the compare request.                                      *)
(***************************************************************************)
Count(rows, r) == Cardinality({i \in 1..Len(rows) : rows[i] = r})

\* the rows of a diff frame that carry the tag, without the tag
TaggedRows(d, tag) ==
    LET hit == SelectSeq(d.rows, LAMBDA r : r[Len(r)] = Indicator(tag))
    IN  [i \in 1..Len(hit) |-> SubSeq(hit[i], 1, Len(hit[i]) - 1)]

SameBag(rs, ts) == \A r \in Range(rs) \cup Range(ts) : Count(rs, r) = Count(ts, r)

Uploaded(s) == source[s] # <<>> /\ target[s] # <<>>

\* the request got past the merge of line 153
Compared(s) ==
    /\ Uploaded(s)
    /\ pc[s] # "clicked"
    /\ shown[s].text # "An error occurred"

SameColumns(s) == Uploaded(s) /\ source[s][1].cols = target[s][1].cols

Slice(v, a, b) == [i \in 1..(b - a + 1) |-> v[a + i - 1]]

\* w is v without its leading and trailing whitespace
Trimmed(v, w) ==
    \E p, q \in 0..Len(v) :
        /\ p + q <= Len(v)
        /\ w = Slice(v, p + 1, Len(v) - q)
        /\ \A i \in 1..p : v[i] \in Whitespace
        /\ \A i \in (Len(v) - q + 1)..Len(v) : v[i] \in Whitespace
        /\ w # <<>> => w[1] \notin Whitespace /\ w[Len(w)] \notin Whitespace

\* the cell y is what the cell x must be once normalised
NormalOf(x, y) == IF x.kind = "str" THEN y.kind = "str" /\ Trimmed(x.val, y.val) ELSE y = x

NormalRowOf(r, t) == Len(r) = Len(t) /\ \A j \in 1..Len(r) : NormalOf(r[j], t[j])

\* the rows r and t differ at most by leading and trailing whitespace of text
AlikeRows(r, t) ==
    /\ Len(r) = Len(t)
    /\ \A j \in 1..Len(r) :
          IF r[j].kind = "str" /\ t[j].kind = "str"
          THEN \E w \in {Slice(r[j].val, a, b) : a \in 1..(Len(r[j].val) + 1), b \in 0..Len(r[j].val)} :
                  Trimmed(r[j].val, w) /\ Trimmed(t[j].val, w)
          ELSE r[j] = t[j]

\* what C1 says of the diff frame of request s
ExactDiff(s) ==
    LET A == ApplyMapStrip(source[s][1]).rows
        B == ApplyMapStrip(target[s][1]).rows
        D == diff[s]
        S == TaggedRows(D, "Source Only")
        T == TaggedRows(D, "Target Only")
    IN  /\ D.cols = source[s][1].cols \o <<"Merge_Output">>
        /\ Len(D.rows) = Len(S) + Len(T)
        /\ \A r \in Range(A) \cup Range(B) \cup Range(S) \cup Range(T) :
              /\ Count(S, r) = IF r \in Range(B) THEN 0 ELSE Count(A, r)
              /\ Count(T, r) = IF r \in Range(A) THEN 0 ELSE Count(B, r)
        /\ Range(A) \cap Range(B) = {} => Len(D.rows) = Len(A) + Len(B)
        /\ pc[s] = "done" =>
              IF D.rows = <<>>
              THEN shown[s] = Message("No differences found.", 0)
              ELSE shown[s] = Message("Found differences.", Len(D.rows))

C2_SelfCompareIsEmpty ==
    \A s \in DOMAIN pc :
        Uploaded(s) /\ source[s] = target[s] /\ pc[s] # "clicked" =>
            /\ diff[s] = [cols |-> source[s][1].cols \o <<"Merge_Output">>, rows |-> <<>>]
            /\ pc[s] \in {"report", "done"}
            /\ pc[s] = "done" =>
                  /\ shown[s] = Message("No differences found.", 0)
                  /\ download[s] # <<>>
                  /\ download[s][1].Differences.rows = <<>>

C2_Witness ==
    \E s \in DOMAIN pc :
        /\ pc[s] = "done" /\ Uploaded(s) /\ source[s] = target[s]
        /\ LET A == source[s][1].rows
           IN  Len(A) = 2 /\ A[1] = A[2] /\ NaN \in Range(A[1])
        /\ shown[s] = Message("No differences found.", 0)

\* C3: the 'Source Only' rows of compare(A, B) are, as a bag, the 'Target
\* Only' rows of compare(B, A), and the 'Target Only' rows of the first the
\* 'Source Only' rows of the second.
C3_TaggingIsSymmetric ==
    \A s \in DOMAIN pc :
        Compared(s) /\ SameColumns(s) =>
            LET swapped == Reconcile(ApplyMapStrip(target[s][1]), ApplyMapStrip(source[s][1]))
            IN  /\ SameBag(TaggedRows(diff[s], "Source Only"), TaggedRows(swapped, "Target Only"))
                /\ SameBag(TaggedRows(diff[s], "Target Only"), TaggedRows(swapped, "Source Only"))

C3_Witness ==
    \E s \in DOMAIN pc :
        /\ pc[s] = "done" /\ SameColumns(s)
        /\ LET S == TaggedRows(diff[s], "Source Only")
               T == TaggedRows(diff[s], "Target Only")
           IN  Len(S) = 2 /\ Len(T) = 2 /\ T[1] = T[2]

\* C4: the sheets written and compared are the uploads with every text cell
\* stripped of leading and trailing whitespace, numbers and missing cells as
\* uploaded; a source row and a target row that differ by such whitespace
\* alone are matched, and neither shows in the diff frame.
C4_WhitespaceIsNotADifference ==
    \A s \in DOMAIN pc :
        Compared(s) /\ SameColumns(s) /\ pc[s] \in {"highlight", "report"} =>
            LET A == source[s][1].rows
                B == target[s][1].rows
                written == disk[1]
            IN  /\ Len(written.Source.rows) = Len(A)
                /\ Len(written.Target.rows) = Len(B)
                /\ \A i \in 1..Len(A) : NormalRowOf(A[i], written.Source.rows[i])
                /\ \A j \in 1..Len(B) : NormalRowOf(B[j], written.Target.rows[j])
                /\ \A i \in 1..Len(A) : \A j \in 1..Len(B) :
                      AlikeRows(A[i], B[j]) =>
                          \A k \in 1..Len(diff[s].rows) :
                              /\ ~NormalRowOf(A[i], SubSeq(diff[s].rows[k], 1, Len(A[i])))
                              /\ ~NormalRowOf(B[j], SubSeq(diff[s].rows[k], 1, Len(B[j])))

C4_Witness ==
    \E s \in DOMAIN pc :
        /\ pc[s] = "highlight" /\ SameColumns(s)
        /\ LET A == source[s][1].rows
               B == target[s][1].rows
           IN  /\ Len(A) = 2 /\ Len(B) = 1
               /\ A[1] = <<Text(<<" ", "a", " ">>), Number(<<"1">>)>>
               /\ B[1] = <<Text(<<"a">>), Number(<<"1">>)>>
               /\ A[2] = <<NaN, Number(<<"1">>)>>
               /\ Len(diff[s].rows) = 1

\* C7: when the columns of the two sheets differ in names, count or order,
\* the request ends in an error shown to the user and no diff frame or file
\* comes of it.
C7_SchemaMismatchIsAnError ==
    \A s \in DOMAIN pc :
        Uploaded(s) /\ ~SameColumns(s) /\ pc[s] # "clicked" =>
            /\ pc[s] = "done"
            /\ shown[s].text = "An error occurred"
            /\ diff[s] = EmptyFrame
            /\ disk = <<>>

\* C8: the file a request offers for download holds what that request
\* computed from its own source and target sheets.
C8_DownloadIsOwnResult ==
    \A s \in DOMAIN pc :
        download[s] # <<>> =>
            LET book == download[s][1]
            IN  /\ book.Source = Sheet(ApplyMapStrip(source[s][1]))
                /\ book.Target = Sheet(ApplyMapStrip(target[s][1]))
                /\ book.Differences.rows = diff[s].rows

\* C9: with n the columns of the Differences sheet beside the tag and
\* half = n div 2, in every row tagged 'Source Only' or 'Target Only' the
\* cells i and i + half (0 <= i < half) are red exactly when their values
\* differ, every other cell has the row's colour, and for odd n the last
\* column beside the tag is never red.
C9_HalvesThatDifferAreRed ==
    \A s \in DOMAIN pc :
        pc[s] = "save" =>
            LET ws == wb[s][1].Differences
                n == Len(ws.cols) - 1
                half == n \div 2
            IN  \A i \in 1..Len(ws.rows) :
                    LET row == ws.rows[i]
                        tag == row[Len(row)]
                        colour == IF tag = Indicator("Source Only") THEN "yellow" ELSE "pink"
                    IN  tag \in {Indicator("Source Only"), Indicator("Target Only")} =>
                            /\ \A k \in 0..(half - 1) :
                                  /\ ws.fill[i][k + 1] = "red" <=> row[k + 1] # row[k + 1 + half]
                                  /\ ws.fill[i][k + 1 + half] = "red" <=> row[k + 1] # row[k + 1 + half]
                            /\ \A j \in 1..Len(row) : ws.fill[i][j] \in {"red", colour}
                            /\ ws.fill[i][Len(row)] = colour
                            /\ n % 2 = 1 => ws.fill[i][n] = colour

(***************************************************************************)
(* Properties of the merge request.                                        *)
(***************************************************************************)
KeyColumn(df) == [i \in 1..Len(df.rows) |-> df.rows[i][ColIndex(df.cols, "UniqueKey")]]

\* the first row of the frame that holds the key
FirstWith(df, key) ==
    CHOOSE i \in 1..Len(df.rows) :
        /\ KeyColumn(df)[i] = key
        /\ \A h \in 1..(i - 1) : KeyColumn(df)[h] # key

Picked(df, row, cols) == [j \in 1..Len(cols) |-> row[ColIndex(df.cols, cols[j])]]

\* C5: the synthetic keys of the merged frame are exactly the keys that
\* occur both in Excel A and in Excel B.
C5_MergedKeysAreTheSharedKeys ==
    mpc = "merged" =>
        Range(KeyColumn(merged_file[1]))
            = Range(KeyColumn(old_file[1])) \cap Range(KeyColumn(new_file[1]))

C5_Witness ==
    /\ mpc = "merged"
    /\ Cardinality(Range(KeyColumn(merged_file[1]))) = 1
    /\ Range(KeyColumn(old_file[1])) \ Range(KeyColumn(new_file[1])) # {}
    /\ Range(KeyColumn(new_file[1])) \ Range(KeyColumn(old_file[1])) # {}

\* C6: a synthetic key heads at most one row of the merged frame, and that
\* row is the first row of Excel A with the key followed by the selected
\* columns of the first row of Excel B with the key.
C6_FirstOfEachSideSurvives ==
    mpc = "merged" =>
        LET M == merged_file[1]
            A == old_file[1]
            B == new_file[1]
        IN  /\ M.cols = <<"UniqueKey", "k1", "k2", "v_x", "v_y">>
            /\ \A i, j \in 1..Len(M.rows) : i # j => M.rows[i][1] # M.rows[j][1]
            /\ \A i \in 1..Len(M.rows) :
                  LET key == M.rows[i][1]
                  IN  /\ key \in Range(KeyColumn(A)) \cap Range(KeyColumn(B))
                      /\ M.rows[i] = <<key>>
                                     \o Picked(A, A.rows[FirstWith(A, key)], old_cols)
                                     \o Picked(B, B.rows[FirstWith(B, key)], new_cols)

C6_Witness ==
    /\ mpc = "merged"
    /\ LET A == old_file[1]
           B == new_file[1]
       IN  /\ Len(A.rows) = 2 /\ Len(B.rows) = 2
           /\ KeyColumn(A)[1] = KeyColumn(A)[2] /\ A.rows[1] # A.rows[2]
           /\ KeyColumn(B)[1] = KeyColumn(B)[2] /\ B.rows[1] # B.rows[2]
           /\ KeyColumn(A)[1] = KeyColumn(B)[1]
    /\ Len(merged_file[1].rows) = 1

\* C10: two rows, of one file or of both, get the same UniqueKey only if the
\* string forms of their key cells are equal position by position.
C10_UniqueKeyIsInjective ==
    mpc = "merged" =>
        LET A == old_file[1]
            B == new_file[1]
            keyed == {<<KeyColumn(A)[i], [k \in 1..Len(old_keys_list) |->
                                            Str(Picked(A, A.rows[i], old_keys_list)[k])]>> :
                        i \in 1..Len(A.rows)}
                     \cup
                     {<<KeyColumn(B)[i], [k \in 1..Len(new_keys_list) |->
                                            Str(Picked(B, B.rows[i], new_keys_list)[k])]>> :
                        i \in 1..Len(B.rows)}
        IN  \A p, q \in keyed : p[1] = q[1] => p[2] = q[2]

====
